---- MODULE Spec2Model ----
(***************************************************************************)
(* A model of the bookings ETL pipeline: the paginated fetcher             *)
(* (extract.py), the record normalizer (transform.py), the bookings load   *)
(* (load.py) and the orchestrator (main.py).                               *)
(*                                                                         *)
(* Four specifications share the variables: SpecExtract, SpecTransform,    *)
(* SpecLoad and SpecMain.  Each one drives one component and leaves the    *)
(* variables of the others at their initial values.                        *)
(***************************************************************************)
EXTENDS Integers, Sequences, FiniteSets, TLC

VARIABLES
    \* ---- extract.extract_all_pages
    xpc,            \* position: "start", "loop", "returned", "raised"
    page,           \* the loop variable `page` (next page to request)
    total_pages,    \* math.ceil(total_records / PER_PAGE)
    records,        \* the accumulator `records`
    requests,       \* pages requested so far, in order (the network calls)
    responses,      \* the outcome of each request, in order
    xresult,        \* what extract_all_pages handed to its caller
    xerror,         \* the exception that left extract_all_pages
    \* ---- transform.transform_data
    tpc,            \* position: "start", "done", "failed", "again"
    raw,            \* the argument `records` (a list of dicts)
    df,             \* the DataFrame transform_data returned
    df_again,       \* what transform_data returns when given `df`
    terror,         \* the exception that left transform_data
    \* ---- load.load_to_postgres
    lpc,            \* position: "idle", "connect", "loop", "done", "failed"
    batch,          \* the argument `df`, as the list of its rows
    bookings,       \* the committed rows of table bookings
    txn,            \* the rows the open transaction has inserted
    lrow,           \* the row the loop `for _, row in df.iterrows()` is at
    outcomes,       \* how each call of load_to_postgres on `batch` ended
    snapshots,      \* table bookings before the first call and after each call
    lerror,         \* the exception that left load_to_postgres
    \* ---- main.main
    mpc,            \* the try block main is about to enter, or "returned"
    executed,       \* the stage functions main has called, in order
    failed,         \* the stage functions in which an error was raised
    mlog,           \* the records main has logged
    origins         \* per failed call: the error raised in it, the error main caught

extractVars == <<xpc, page, total_pages, records, requests, responses, xresult, xerror>>

transformVars == <<tpc, raw, df, df_again, terror>>

loadVars == <<lpc, batch, bookings, txn, lrow, outcomes, snapshots, lerror>>
mainVars == <<mpc, executed, failed, mlog, origins>>

vars == <<extractVars, transformVars, loadVars, mainVars>>

------------------------------------------------------------------------------
(* Bounds and configuration *)

PER_PAGE == 50

\* Largest `total` a page reports.
MaxTotal == 120

\* Number of lengths, besides the exact one, a page's `results` may have.
MaxShortPage == 1

\* Longest list of records handed to transform_data, longest batch loaded.
MaxRecords == 2

\* Number of times load_to_postgres is called on a batch.
MaxLoads == 2

Max(a, b) == IF a >= b THEN a ELSE b
Min(a, b) == IF a <= b THEN a ELSE b

------------------------------------------------------------------------------
(* extract.py *)

\* The totals the API may report; a negative total is a payload the code
\* accepts like any other number.
TotalValues == (0 - 1)..MaxTotal

\* Record number i of page k of the upstream collection.
UpstreamRecord(k, i) == (k - 1) * PER_PAGE + i

PageResults(k, n) == [i \in 1..n |-> UpstreamRecord(k, i)]

\* Length of page k when the collection holds `total` records.
FullPageLen(k, total) == Max(0, Min(PER_PAGE, total - (k - 1) * PER_PAGE))

TransportFailure == [ok |-> FALSE, has_results |-> FALSE, results |-> <<>>,
                     has_total |-> FALSE, total |-> 0]

Payload(hasR, res, hasT, t) == [ok |-> TRUE, has_results |-> hasR, results |-> res,
                                has_total |-> hasT, total |-> t]

\* Every outcome requests.get + raise_for_status + json() can have for page k
\* when the collection's size is one of `totals`.
PageOutcomes(k, totals) ==
    {TransportFailure}
    \cup {Payload(FALSE, <<>>, TRUE, t) : t \in totals}
    \cup {Payload(TRUE, PageResults(k, FullPageLen(k, t)), FALSE, 0) : t \in totals}
    \cup {Payload(TRUE, PageResults(k, n), TRUE, t) :
             n \in 0..MaxShortPage, t \in totals}
    \cup {Payload(TRUE, PageResults(k, FullPageLen(k, t)), TRUE, t) : t \in totals}

\* math.ceil(total_records / PER_PAGE); before it, the page count rounded
\* down, and rounded down plus one.
TotalPagesFloor(total_records) == total_records \div PER_PAGE
TotalPagesFloorPlusOne(total_records) == (total_records \div PER_PAGE) + 1
TotalPages(total_records) == 0 - ((0 - total_records) \div PER_PAGE)

NoError == [type |-> "none", page |-> 0]
NoResult == [returned |-> FALSE, value |-> <<>>]

\* raise ValueError("'results' key not found in API response")
\* raise ValueError(f"'results' key not found in API response for page {page}")
MissingResultsError(k) == [type |-> "ValueError", page |-> IF k = 1 THEN 0 ELSE k]
\* raise ValueError("'total' key not found in API response")
MissingTotalError == [type |-> "ValueError", page |-> 0]
\* raise_for_status() / requests.get failing for the URL of page k
RequestError(k) == [type |-> "RequestException", page |-> k]

\* except requests.exceptions.RequestException: log, raise; before it, the
\* handler without its `raise`, which falls through to `return records`.
ExceptRequestExceptionReturns(e, recs) ==
    [pc |-> "returned", error |-> NoError, result |-> [returned |-> TRUE, value |-> recs]]
ExceptRequestException(e, recs) ==
    [pc |-> "raised", error |-> e, result |-> NoResult]

\* except ValueError: log, raise; before it, the handler without its `raise`.
ExceptValueErrorReturns(e, recs) ==
    [pc |-> "returned", error |-> NoError, result |-> [returned |-> TRUE, value |-> recs]]
ExceptValueError(e, recs) ==
    [pc |-> "raised", error |-> e, result |-> NoResult]

ExtractInit ==
    /\ xpc = "start"
    /\ page = 1
    /\ total_pages = 0
    /\ records = <<>>
    /\ requests = <<>>
    /\ responses = <<>>
    /\ xresult = NoResult
    /\ xerror = NoError

Leave(out) ==
    /\ xpc' = out.pc
    /\ xerror' = out.error
    /\ xresult' = out.result

\* Lines 33-47: the request for page 1 and everything up to the loop.
FetchFirstPage ==
    /\ xpc = "start"
    /\ \E first_page_data \in PageOutcomes(1, TotalValues) :
        /\ requests' = Append(requests, 1)
        /\ responses' = Append(responses, first_page_data)
        /\ IF ~first_page_data.ok
           THEN /\ Leave(ExceptRequestException(RequestError(1), records))
                /\ UNCHANGED <<page, total_pages, records>>
           ELSE IF ~first_page_data.has_results
           THEN /\ Leave(ExceptValueError(MissingResultsError(1), records))
                /\ UNCHANGED <<page, total_pages, records>>
           ELSE IF ~first_page_data.has_total
           THEN /\ Leave(ExceptValueError(MissingTotalError, records))
                /\ UNCHANGED <<page, total_pages, records>>
           ELSE /\ total_pages' = TotalPages(first_page_data.total)
                /\ records' = first_page_data.results
                /\ page' = 2
                /\ xpc' = "loop"
                /\ UNCHANGED <<xresult, xerror>>
    /\ UNCHANGED <<transformVars, loadVars, mainVars>>

\* Lines 50-60: one iteration of `for page in range(2, total_pages + 1)`.
\* The size the upstream collection has by now is the one page 1 reported or
\* one that moved by a page since.
FetchNextPage ==
    /\ xpc = "loop"
    /\ page <= total_pages
    /\ \E data \in PageOutcomes(page, {responses[1].total, responses[1].total + PER_PAGE}) :
        /\ requests' = Append(requests, page)
        /\ responses' = Append(responses, data)
        /\ IF ~data.ok
           THEN /\ Leave(ExceptRequestException(RequestError(page), records))
                /\ UNCHANGED <<page, total_pages, records>>
           ELSE IF ~data.has_results
           THEN /\ Leave(ExceptValueError(MissingResultsError(page), records))
                /\ UNCHANGED <<page, total_pages, records>>
           ELSE /\ records' = records \o data.results
                /\ page' = page + 1
                /\ UNCHANGED <<xpc, total_pages, xresult, xerror>>
    /\ UNCHANGED <<transformVars, loadVars, mainVars>>

\* Lines 72-73: the loop is exhausted, `return records`.
ReturnRecords ==
    /\ xpc = "loop"
    /\ page > total_pages
    /\ xpc' = "returned"
    /\ xresult' = [returned |-> TRUE, value |-> records]
    /\ UNCHANGED <<page, total_pages, records, requests, responses, xerror>>
    /\ UNCHANGED <<transformVars, loadVars, mainVars>>

ExtractNext ==
    \/ FetchFirstPage
    \/ FetchNextPage
    \/ ReturnRecords

------------------------------------------------------------------------------
(* Values of the record fields and of the DataFrame cells *)

\* A text is the sequence of its characters.
Lowers == <<"a", "b", "c", "d", "e", "f", "g", "h", "i", "j", "k", "l", "m",
            "n", "o", "p", "q", "r", "s", "t", "u", "v", "w", "x", "y", "z">>
Uppers == <<"A", "B", "C", "D", "E", "F", "G", "H", "I", "J", "K", "L", "M",
            "N", "O", "P", "Q", "R", "S", "T", "U", "V", "W", "X", "Y", "Z">>
Digits == <<"0", "1", "2", "3", "4", "5", "6", "7", "8", "9">>

IndexIn(c, seq) == IF \E i \in 1..Len(seq) : seq[i] = c
                   THEN CHOOSE i \in 1..Len(seq) : seq[i] = c
                   ELSE 0

IsLetter(c) == IndexIn(c, Lowers) > 0 \/ IndexIn(c, Uppers) > 0
IsDigit(c) == IndexIn(c, Digits) > 0
IsSpace(c) == c = " "
Upper(c) == IF IndexIn(c, Lowers) > 0 THEN Uppers[IndexIn(c, Lowers)] ELSE c
Lower(c) == IF IndexIn(c, Uppers) > 0 THEN Lowers[IndexIn(c, Uppers)] ELSE c
DigitValue(c) == IndexIn(c, Digits) - 1

\* Cells: a text, an integer, None (a JSON null), NaN (the filler of a key a
\* record lacks), a Timestamp (n = yyyymmdd) and NaT.
StrCell(chars) == [k |-> "str", n |-> 0, s |-> chars]
IntCell(i) == [k |-> "int", n |-> i, s |-> <<>>]
NoneCell == [k |-> "None", n |-> 0, s |-> <<>>]
NaNCell == [k |-> "NaN", n |-> 0, s |-> <<>>]
DateCell(yyyymmdd) == [k |-> "date", n |-> yyyymmdd, s |-> <<>>]
NaTCell == [k |-> "NaT", n |-> 0, s |-> <<>>]

\* pandas.isna
IsNa(cell) == cell.k \in {"None", "NaN", "NaT"}

------------------------------------------------------------------------------
(* transform.py *)

\* The value record i has in column c before the column's type is inferred:
\* a key the record lacks is filled with NaN.
RawCell(recs, i, c) == IF c \in DOMAIN recs[i] THEN recs[i][c] ELSE NaNCell

\* The type inference of a column: a column that holds no text and holds a
\* number or a NaN becomes a float column, in which None is stored as NaN;
\* every other column keeps its objects, None included.
BecomesFloatColumn(recs, c) ==
    /\ \A i \in 1..Len(recs) : RawCell(recs, i, c).k # "str"
    /\ \E i \in 1..Len(recs) : RawCell(recs, i, c).k \in {"NaN", "int"}

\* pd.DataFrame(records): the columns are the keys some record has, the
\* index is the position in the list.
DataFrame(recs) ==
    LET cols == UNION {DOMAIN recs[i] : i \in 1..Len(recs)} IN
    [columns |-> cols,
     rows |-> [i \in 1..Len(recs) |->
                 [idx |-> i - 1,
                  cells |-> [c \in cols |->
                               IF RawCell(recs, i, c) = NoneCell
                                  /\ BecomesFloatColumn(recs, c)
                               THEN NaNCell
                               ELSE RawCell(recs, i, c)]]]]

RECURSIVE SelectRows(_, _)
\* The rows of `rows` whose position is in `keep`, in their order.
SelectRows(rows, keep) ==
    IF rows = <<>> THEN <<>>
    ELSE LET n == Len(rows)
             front == SelectRows(SubSeq(rows, 1, n - 1), keep)
         IN IF n \in keep THEN Append(front, rows[n]) ELSE front

\* df.dropna(subset=[col]); before it, the call whose result is not assigned.
DropNaForgotten(frame, col) == frame
DropNa(frame, col) ==
    [frame EXCEPT !.rows =
        SelectRows(frame.rows,
                   {i \in 1..Len(frame.rows) : ~IsNa(frame.rows[i].cells[col])})]

\* df.drop_duplicates(subset=[col], keep="last"); before it, keep="first".
DropDuplicatesKeepFirst(frame, col) ==
    [frame EXCEPT !.rows =
        SelectRows(frame.rows,
                   {i \in 1..Len(frame.rows) :
                      ~\E j \in 1..(i - 1) :
                          frame.rows[j].cells[col] = frame.rows[i].cells[col]})]
DropDuplicates(frame, col) ==
    [frame EXCEPT !.rows =
        SelectRows(frame.rows,
                   {i \in 1..Len(frame.rows) :
                      ~\E j \in (i + 1)..Len(frame.rows) :
                          frame.rows[j].cells[col] = frame.rows[i].cells[col]})]

IsLeapYear(y) == (y % 4 = 0 /\ y % 100 # 0) \/ y % 400 = 0
DaysInMonth(y, m) ==
    IF m \in {4, 6, 9, 11} THEN 30
    ELSE IF m = 2 THEN (IF IsLeapYear(y) THEN 29 ELSE 28)
    ELSE 31

\* The date a text of the form YYYY-MM-DD denotes; NaT for every other text.
ParseDate(chars) ==
    IF /\ Len(chars) = 10
       /\ chars[5] = "-" /\ chars[8] = "-"
       /\ \A i \in {1, 2, 3, 4, 6, 7, 9, 10} : IsDigit(chars[i])
    THEN LET y == DigitValue(chars[1]) * 1000 + DigitValue(chars[2]) * 100
                  + DigitValue(chars[3]) * 10 + DigitValue(chars[4])
             m == DigitValue(chars[6]) * 10 + DigitValue(chars[7])
             d == DigitValue(chars[9]) * 10 + DigitValue(chars[10])
         IN IF y >= 1 /\ m \in 1..12 /\ d >= 1 /\ d <= DaysInMonth(y, m)
            THEN DateCell(y * 10000 + m * 100 + d)
            ELSE NaTCell
    ELSE NaTCell

\* pd.to_datetime(column, errors="coerce"), on one cell; before it, a
\* conversion that knows texts only.
ToDatetimeTextOnly(cell) ==
    IF cell.k = "str" THEN ParseDate(cell.s) ELSE NaTCell
ToDatetime(cell) ==
    IF cell.k = "date" THEN cell
    ELSE IF cell.k = "str" THEN ParseDate(cell.s)
    ELSE NaTCell

RECURSIVE IntText(_)
\* str(i) for i >= 0
IntText(i) == IF i < 10 THEN <<Digits[i + 1]>>
              ELSE Append(IntText(i \div 10), Digits[(i % 10) + 1])

\* column.astype(str), on one cell
AsTypeStr(cell) ==
    IF cell.k = "str" THEN cell.s
    ELSE IF cell.k = "None" THEN <<"N", "o", "n", "e">>
    ELSE IF cell.k = "NaN" THEN <<"n", "a", "n">>
    ELSE IF cell.k = "NaT" THEN <<"N", "a", "T">>
    ELSE IntText(cell.n)

RECURSIVE LStrip(_)
LStrip(chars) == IF chars # <<>> /\ IsSpace(chars[1]) THEN LStrip(Tail(chars)) ELSE chars

RECURSIVE RStrip(_)
RStrip(chars) == IF chars # <<>> /\ IsSpace(chars[Len(chars)])
                 THEN RStrip(SubSeq(chars, 1, Len(chars) - 1)) ELSE chars

\* str.strip()
Strip(chars) == RStrip(LStrip(chars))

\* str.title(): a letter that follows a letter is lowercased, every other
\* letter is uppercased.  Before it, str.capitalize().
TitleCapitalize(chars) ==
    [i \in 1..Len(chars) |-> IF i > 1 THEN Lower(chars[i]) ELSE Upper(chars[i])]
Title(chars) ==
    [i \in 1..Len(chars) |->
        IF i > 1 /\ IsLetter(chars[i - 1]) THEN Lower(chars[i]) ELSE Upper(chars[i])]

\* column.astype(str).str.strip().str.title(), on one cell
StandardizeText(cell) == StrCell(Title(Strip(AsTypeStr(cell))))

\* df[col] = pd.to_datetime(df[col], errors="coerce")
AssignDatetime(frame, col) ==
    [frame EXCEPT !.rows =
        [i \in 1..Len(frame.rows) |->
            [frame.rows[i] EXCEPT !.cells[col] = ToDatetime(frame.rows[i].cells[col])]]]

\* df[col] = df[col].astype(str).str.strip().str.title()
AssignText(frame, col) ==
    [frame EXCEPT !.rows =
        [i \in 1..Len(frame.rows) |->
            [frame.rows[i] EXCEPT !.cells[col] = StandardizeText(frame.rows[i].cells[col])]]]

\* check_out_date >= check_in_date on one row; a comparison with NaT is False
DateOrderOk(row) ==
    /\ row.cells["check_out_date"].k = "date"
    /\ row.cells["check_in_date"].k = "date"
    /\ row.cells["check_out_date"].n >= row.cells["check_in_date"].n

\* df[df["check_out_date"] >= df["check_in_date"]]
FilterDateOrder(frame) ==
    [frame EXCEPT !.rows =
        SelectRows(frame.rows, {i \in 1..Len(frame.rows) : DateOrderOk(frame.rows[i])})]

\* The columns transform_data looks up, in the order it does.
AccessedColumns ==
    <<"booking_id", "check_in_date", "check_out_date", "owner_company",
      "owner_company_country">>

NoFrame == [columns |-> {}, rows |-> <<>>]
NoKeyError == [type |-> "none", key |-> ""]

\* The first column looked up that the frame lacks; "" when it has them all.
\* Rows are only removed before the lookups, columns never are.  Before it,
\* a lookup made record by record, which misses a key any record lacks.
FirstMissingColumnInAnyRow(frame) ==
    LET missing == {i \in 1..Len(AccessedColumns) :
                      \/ AccessedColumns[i] \notin frame.columns
                      \/ \E r \in 1..Len(frame.rows) :
                            frame.rows[r].cells[AccessedColumns[i]] = NaNCell}
    IN IF missing = {} THEN ""
       ELSE AccessedColumns[CHOOSE i \in missing : \A j \in missing : i <= j]
FirstMissingColumn(frame) ==
    LET missing == {i \in 1..Len(AccessedColumns) : AccessedColumns[i] \notin frame.columns}
    IN IF missing = {} THEN ""
       ELSE AccessedColumns[CHOOSE i \in missing : \A j \in missing : i <= j]

\* Before it, transform_data with the filter of line 61 ahead of the
\* drop_duplicates of line 46.
TransformDataFilterFirst(frame) ==
    IF FirstMissingColumn(frame) # ""
    THEN [raised |-> TRUE,
          error |-> [type |-> "KeyError", key |-> FirstMissingColumn(frame)],
          df |-> NoFrame]
    ELSE LET d1 == DropNa(frame, "booking_id")
             d2 == AssignDatetime(d1, "check_in_date")
             d3 == AssignDatetime(d2, "check_out_date")
             d4 == DropDuplicates(FilterDateOrder(d3), "booking_id")
             d5 == AssignText(d4, "owner_company")
             d6 == AssignText(d5, "owner_company_country")
         IN [raised |-> FALSE, error |-> NoKeyError, df |-> d6]

\* transform_data(frame): lines 41-64, and the handler of lines 66-68.
TransformData(frame) ==
    IF FirstMissingColumn(frame) # ""
    THEN [raised |-> TRUE,
          error |-> [type |-> "KeyError", key |-> FirstMissingColumn(frame)],
          df |-> NoFrame]
    ELSE LET d1 == DropNa(frame, "booking_id")
             d2 == DropDuplicates(d1, "booking_id")
             d3 == AssignDatetime(d2, "check_in_date")
             d4 == AssignDatetime(d3, "check_out_date")
             d5 == AssignText(d4, "owner_company")
             d6 == AssignText(d5, "owner_company_country")
         IN [raised |-> FALSE, error |-> NoKeyError, df |-> FilterDateOrder(d6)]

------------------------------------------------------------------------------
(* The records transform_data is given *)

Absent == [k |-> "absent", n |-> 0, s |-> <<>>]

BookingIds == {1, 2}

Text_acme_corp == <<" ", " ", "a", "c", "m", "e", " ", "c", "o", "r", "p", " ", " ">>
Text_uSA == <<"u", "S", "A">>
Text_oNEIL_3m == <<" ", "o", "'", "n", "E", "I", "L", " ", " ", "3", "m">>

D_2024_01_01 == StrCell(<<"2", "0", "2", "4", "-", "0", "1", "-", "0", "1">>)
D_2024_01_05 == StrCell(<<"2", "0", "2", "4", "-", "0", "1", "-", "0", "5">>)
D_2024_02_01 == StrCell(<<"2", "0", "2", "4", "-", "0", "2", "-", "0", "1">>)
D_2024_02_05 == StrCell(<<"2", "0", "2", "4", "-", "0", "2", "-", "0", "5">>)
D_2024_02_30 == StrCell(<<"2", "0", "2", "4", "-", "0", "2", "-", "3", "0">>)
D_not_a_date == StrCell(<<"n", "o", "t", "-", "a", "-", "d", "a", "t", "e">>)

\* <<check_in_date, check_out_date>>
DateOptions ==
    { <<D_2024_01_01, D_2024_01_05>>, <<D_2024_02_01, D_2024_02_05>>,
      <<D_2024_01_05, D_2024_01_05>>, <<D_2024_01_05, D_2024_01_01>>,
      <<D_not_a_date, D_2024_01_05>>, <<D_2024_01_01, D_2024_02_30>>,
      <<D_2024_01_01, Absent>>, <<Absent, D_2024_01_05>>, <<NoneCell, D_2024_01_05>> }

\* <<owner_company, owner_company_country>>
TextOptions ==
    { <<StrCell(Text_acme_corp), StrCell(Text_uSA)>>,
      <<Absent, NoneCell>>, <<NoneCell, Absent>>,
      <<NoneCell, StrCell(Text_oNEIL_3m)>> }

\* The dict with the keys whose value is not Absent.
Dict(id, in, out, company, country) ==
    LET all == [booking_id |-> id, check_in_date |-> in, check_out_date |-> out,
                owner_company |-> company, owner_company_country |-> country]
    IN [f \in {g \in DOMAIN all : all[g] # Absent} |-> all[f]]

\* The records of the API: every booking id with every pair of dates; a null
\* and a missing id with good, reversed and incomplete dates; null and
\* missing texts.
RawRecords ==
    {Dict(IntCell(i), d[1], d[2], StrCell(Text_acme_corp), StrCell(Text_uSA)) :
        i \in BookingIds, d \in DateOptions}
    \cup {Dict(id, d[1], d[2], StrCell(Text_acme_corp), StrCell(Text_uSA)) :
             id \in {NoneCell, Absent},
             d \in { <<D_2024_01_01, D_2024_01_05>>, <<D_2024_01_05, D_2024_01_01>>,
                     <<D_2024_01_01, Absent>> }}
    \cup {Dict(id, D_2024_01_01, D_2024_01_05, t[1], t[2]) :
             id \in {IntCell(1), NoneCell}, t \in TextOptions}

RawLists == UNION {[1..n -> RawRecords] : n \in 0..MaxRecords}

TransformIdle ==
    /\ tpc = "idle"
    /\ raw = <<>>
    /\ df = NoFrame
    /\ df_again = NoFrame
    /\ terror = NoKeyError

TransformInit ==
    /\ tpc = "start"
    /\ raw \in RawLists
    /\ df = NoFrame
    /\ df_again = NoFrame
    /\ terror = NoKeyError

\* transform_data(records) returns a DataFrame.
Transform ==
    /\ tpc = "start"
    /\ LET out == TransformData(DataFrame(raw)) IN
          /\ ~out.raised
          /\ df' = out.df
    /\ tpc' = "done"
    /\ UNCHANGED <<raw, df_again, terror>>
    /\ UNCHANGED <<extractVars, loadVars, mainVars>>

\* transform_data(records) raises.
TransformRaises ==
    /\ tpc = "start"
    /\ LET out == TransformData(DataFrame(raw)) IN
          /\ out.raised
          /\ terror' = out.error
    /\ tpc' = "failed"
    /\ UNCHANGED <<raw, df, df_again>>
    /\ UNCHANGED <<extractVars, loadVars, mainVars>>

\* transform_data(df): the cleaned table is normalized once more.
TransformAgain ==
    /\ tpc = "done"
    /\ LET out == TransformData(df) IN
          /\ ~out.raised
          /\ df_again' = out.df
    /\ tpc' = "again"
    /\ UNCHANGED <<raw, df, terror>>
    /\ UNCHANGED <<extractVars, loadVars, mainVars>>

TransformNext ==
    \/ Transform
    \/ TransformRaises
    \/ TransformAgain

------------------------------------------------------------------------------
(* load.py *)

\* What get_conn() raises when the database cannot be reached.
OperationalError == "OperationalError"
\* What cur.execute / conn.commit raise.
DatabaseError == "DatabaseError"
\* What `cur.close()` raises in the finally block while `cur` is unbound.
UnboundLocalError == "UnboundLocalError"

\* The finally block of load_to_postgres, create_booking_table and
\* create_rate_table: cur.close(); conn.close().  `e` is the exception on its
\* way out; `cur` is bound only once get_conn() and conn.cursor() returned.
FinallyClose(e, cur_bound) == IF cur_bound THEN e ELSE UnboundLocalError

\* The rows a statement of the transaction sees: the committed ones and its own.
Visible(table, pending) == table \cup pending

\* INSERT INTO bookings (...) VALUES (...) ON CONFLICT (booking_id) DO NOTHING:
\* the rows the transaction has pending after the statement.  Before it,
\* the statement with DO UPDATE.
InsertOnConflictDoUpdate(table, pending, row) ==
    {r \in pending : r.booking_id # row.booking_id} \cup {row}
InsertOnConflictDoNothing(table, pending, row) ==
    IF \E r \in Visible(table, pending) : r.booking_id = row.booking_id
    THEN pending
    ELSE pending \cup {row}

\* conn.commit(): the committed rows afterwards.  A pending row replaces the
\* committed row of its key, if the statement was allowed to touch one.
Commit(table, pending) ==
    {r \in table : ~\E q \in pending : q.booking_id = r.booking_id} \cup pending

\* The rows of a cleaned table, as load_to_postgres reads them.
BookingRow(id, in, out, company, country) ==
    [booking_id |-> id, check_in_date |-> in, check_out_date |-> out,
     owner_company |-> company, owner_company_country |-> country]

CleanRows ==
    {BookingRow(id, 20240101, 20240105, "Acme Corp", "Usa") : id \in BookingIds}
    \cup {BookingRow(id, 20240201, 20240205, "Nan", "None") : id \in BookingIds}

Batches == UNION {[1..n -> CleanRows] : n \in 0..MaxRecords}

\* The contents table bookings may have: booking_id is its unique key.
StoredTables ==
    {t \in SUBSET CleanRows :
        \A r, q \in t : r.booking_id = q.booking_id => r = q}

LoadIdle ==
    /\ lpc = "idle"
    /\ batch = <<>>
    /\ bookings = {}
    /\ txn = {}
    /\ lrow = 0
    /\ outcomes = <<>>
    /\ snapshots = <<>>
    /\ lerror = "none"

LoadInit ==
    /\ lpc = "connect"
    /\ batch \in Batches
    /\ bookings \in StoredTables
    /\ txn = {}
    /\ lrow = 0
    /\ outcomes = <<>>
    /\ snapshots = <<bookings>>
    /\ lerror = "none"

\* The call is over: the connection is closed, which discards what was not
\* committed.
LoadEnds(how, table) ==
    /\ lpc' = how
    /\ txn' = {}
    /\ outcomes' = Append(outcomes, how)
    /\ snapshots' = Append(snapshots, table)

\* Lines 159-160: conn = get_conn(); cur = conn.cursor()
LoadConnect ==
    /\ lpc = "connect"
    /\ \/ /\ lpc' = "loop"
          /\ lrow' = 1
          /\ txn' = {}
          /\ UNCHANGED <<batch, bookings, outcomes, snapshots, lerror>>
       \/ /\ LoadEnds("failed", bookings)
          /\ lerror' = FinallyClose(OperationalError, FALSE)
          /\ UNCHANGED <<batch, bookings, lrow>>
    /\ UNCHANGED <<extractVars, transformVars, mainVars>>

\* Lines 161-172: one iteration of the loop, the INSERT of one row.
LoadInsertRow ==
    /\ lpc = "loop"
    /\ lrow <= Len(batch)
    /\ \/ /\ txn' = InsertOnConflictDoNothing(bookings, txn, batch[lrow])
          /\ lrow' = lrow + 1
          /\ UNCHANGED <<lpc, batch, bookings, outcomes, snapshots, lerror>>
       \/ /\ LoadEnds("failed", bookings)
          /\ lerror' = FinallyClose(DatabaseError, TRUE)
          /\ UNCHANGED <<batch, bookings, lrow>>
    /\ UNCHANGED <<extractVars, transformVars, mainVars>>

\* Lines 173-183: conn.commit(), then the finally block.
LoadCommit ==
    /\ lpc = "loop"
    /\ lrow > Len(batch)
    /\ \/ /\ bookings' = Commit(bookings, txn)
          /\ LoadEnds("done", Commit(bookings, txn))
          /\ UNCHANGED <<batch, lrow, lerror>>
       \/ /\ LoadEnds("failed", bookings)
          /\ lerror' = FinallyClose(DatabaseError, TRUE)
          /\ UNCHANGED <<batch, bookings, lrow>>
    /\ UNCHANGED <<extractVars, transformVars, mainVars>>

\* load_to_postgres is called on the same batch once more.
LoadAgain ==
    /\ lpc \in {"done", "failed"}
    /\ Len(outcomes) < MaxLoads
    /\ lpc' = "connect"
    /\ lerror' = "none"
    /\ UNCHANGED <<batch, bookings, txn, lrow, outcomes, snapshots>>
    /\ UNCHANGED <<extractVars, transformVars, mainVars>>

LoadNext ==
    \/ LoadConnect
    \/ LoadInsertRow
    \/ LoadCommit
    \/ LoadAgain

------------------------------------------------------------------------------
(* main.py *)

MainIdle ==
    /\ mpc = "idle"
    /\ executed = <<>>
    /\ failed = {}
    /\ mlog = <<>>
    /\ origins = <<>>

\* The stage functions main calls, try block by try block.
ExtractCalls == <<"extract_all_pages">>
TransformCalls == <<"transform_data">>
TableCalls == <<"create_booking_table", "read_csv_data", "create_rate_table">>
LoadCalls == <<"load_to_postgres", "load_csv_to_postgres">>
CountryCurrencyCalls == <<"create_country_currency">>
FinalTableCalls == <<"create_final_table">>
PresentCalls == <<"present_final_table">>

\* The exceptions raised inside each stage function: by get_conn(), open(),
\* cur.execute(), conn.commit(), pd.read_csv(), the column lookups, the requests.
Causes(call) ==
    CASE call = "extract_all_pages" ->
            {RequestError(1).type, MissingResultsError(1).type}
      [] call = "transform_data" -> {"KeyError"}
      [] call \in {"create_booking_table", "create_rate_table"} ->
            {OperationalError, "FileNotFoundError", DatabaseError}
      [] call = "read_csv_data" -> {"FileNotFoundError", "ParserError"}
      [] call = "load_to_postgres" -> {OperationalError, DatabaseError}
      [] call = "load_csv_to_postgres" -> {OperationalError, "KeyError", DatabaseError}
      [] call \in {"create_country_currency", "create_final_table"} ->
            {OperationalError, "FileNotFoundError", DatabaseError}
      [] call = "present_final_table" -> {}

\* The exception that leaves the stage function when `cause` is raised in it,
\* after its except clauses and its finally block.  The functions of load.py
\* bind `cur` only after get_conn() returned; create_country_currency and
\* create_final_table start from conn = None, cur = None and test them.
Observed(call, cause) ==
    CASE call = "extract_all_pages" ->
            IF cause = RequestError(1).type
            THEN ExceptRequestException(RequestError(1), <<>>).error.type
            ELSE ExceptValueError(MissingResultsError(1), <<>>).error.type
      [] call \in {"create_booking_table", "create_rate_table",
                   "load_to_postgres", "load_csv_to_postgres"} ->
            FinallyClose(cause, cause # OperationalError)
      [] OTHER -> cause

\* The exceptions that leave each stage function.
Raises(call) == {Observed(call, cause) : cause \in Causes(call)}

\* The exceptions present_final_table catches and logs itself (lines 73-74).
PresentCaught == {OperationalError, "FileNotFoundError", DatabaseError}

\* Whether the `except Exception` of a try block of main ends with `return`.
HandlerReturns(block) == block \in {"extract", "transform", "tables", "load"}

LogInfo(block) == [level |-> "INFO", block |-> block, error |-> "none"]
LogError(block, e) == [level |-> "ERROR", block |-> block, error |-> e]

MainInit ==
    /\ mpc = "extract"
    /\ executed = <<>>
    /\ failed = {}
    /\ mlog = <<LogInfo("start")>>
    /\ origins = <<>>

\* One try block of main: its calls run in order until one raises; the
\* handler logs the error and returns, or lets main go on with `next`.
TryBlock(block, calls, next) ==
    /\ mpc = block
    /\ \/ /\ executed' = executed \o calls
          /\ mlog' = Append(mlog, LogInfo(block))
          /\ mpc' = next
          /\ UNCHANGED failed
          /\ UNCHANGED origins
       \/ \E n \in 1..Len(calls) : \E cause \in Causes(calls[n]) :
          /\ executed' = executed \o SubSeq(calls, 1, n)
          /\ failed' = failed \cup {calls[n]}
          /\ mlog' = Append(mlog, LogError(block, Observed(calls[n], cause)))
          /\ origins' = Append(origins, [call |-> calls[n], cause |-> cause,
                                         caught |-> Observed(calls[n], cause)])
          /\ mpc' = IF HandlerReturns(block) THEN "returned" ELSE next
    /\ UNCHANGED <<extractVars, transformVars, loadVars>>

\* Lines 67-75
ExtractPhase == TryBlock("extract", ExtractCalls, "transform")
\* Lines 78-84
TransformPhase == TryBlock("transform", TransformCalls, "tables")
\* Lines 87-94
TableCreationPhase == TryBlock("tables", TableCalls, "load")
\* Lines 96-103
LoadPhase == TryBlock("load", LoadCalls, "country_currency")
\* Lines 106-111
CountryCurrencyPhase == TryBlock("country_currency", CountryCurrencyCalls, "final_table")
\* Lines 113-118
FinalTablePhase == TryBlock("final_table", FinalTableCalls, "present")

\* Lines 121-126: present_final_table returns whatever happens inside it, and
\* main logs that the table was presented.
PresentationPhase ==
    /\ mpc = "present"
    /\ executed' = executed \o PresentCalls
    /\ \/ /\ mlog' = Append(mlog, LogInfo("present"))
          /\ UNCHANGED failed
       \/ \E e \in PresentCaught :
          /\ failed' = failed \cup {"present_final_table"}
          /\ mlog' = mlog \o <<LogError("present_final_table", e), LogInfo("present")>>
    /\ mpc' = "finish"
    /\ UNCHANGED origins
    /\ UNCHANGED <<extractVars, transformVars, loadVars>>

\* Line 128
Finish ==
    /\ mpc = "finish"
    /\ mlog' = Append(mlog, LogInfo("finished"))
    /\ mpc' = "returned"
    /\ UNCHANGED <<executed, failed, origins>>
    /\ UNCHANGED <<extractVars, transformVars, loadVars>>

MainNext ==
    \/ ExtractPhase
    \/ TransformPhase
    \/ TableCreationPhase
    \/ LoadPhase
    \/ CountryCurrencyPhase
    \/ FinalTablePhase
    \/ PresentationPhase
    \/ Finish

------------------------------------------------------------------------------
(* Specifications *)

\* A run of extract_all_pages.
InitExtract == ExtractInit /\ TransformIdle /\ LoadIdle /\ MainIdle
SpecExtract == InitExtract /\ [][ExtractNext]_vars

\* transform_data applied to a list of records, then to its own result.
InitTransform == ExtractInit /\ TransformInit /\ LoadIdle /\ MainIdle
SpecTransform == InitTransform /\ [][TransformNext]_vars

\* load_to_postgres called on a batch, MaxLoads times.
InitLoad == ExtractInit /\ TransformIdle /\ LoadInit /\ MainIdle
SpecLoad == InitLoad /\ [][LoadNext]_vars

\* One run of main.
InitMain == ExtractInit /\ TransformIdle /\ LoadIdle /\ MainInit
SpecMain == InitMain /\ [][MainNext]_vars

------------------------------------------------------------------------------
(* Properties of extract_all_pages *)

RECURSIVE ConcatResults(_)
ConcatResults(rs) ==
    IF rs = <<>> THEN <<>> ELSE rs[1].results \o ConcatResults(Tail(rs))

\* ceil(total / PER_PAGE) as the specification writes it: the least n with
\* n * PER_PAGE >= total.
CeilPages(total) ==
    CHOOSE n \in (0 - 1)..(MaxTotal + PER_PAGE) :
        /\ n * PER_PAGE >= total
        /\ (n - 1) * PER_PAGE < total

\* Page 1 answered with both `results` and `total`.
FirstPageValid ==
    /\ Len(responses) >= 1
    /\ responses[1].ok /\ responses[1].has_results /\ responses[1].has_total

\* Every page answered so far carries `results`.
AllPagesValid ==
    /\ FirstPageValid
    /\ \A i \in 1..Len(responses) : responses[i].ok /\ responses[i].has_results

\* Every page k holds min(PER_PAGE, total - (k-1)*PER_PAGE) records.
AllPagesFull ==
    \A i \in 1..Len(responses) :
        Len(responses[i].results)
            = Min(PER_PAGE, responses[1].total - (i - 1) * PER_PAGE)

\* C1: when every page answers with `results` (page 1 also with `total`), the
\* fetch returns after exactly max(1, ceil(total / PER_PAGE)) requests, for
\* pages 1, 2, ..., N in this order, `total` being the one page 1 reported;
\* the value returned is the pages' results concatenated in page order, and
\* it has exactly `total` records when every page is full.
C1_PagesFetchedInOrder ==
    (xpc = "returned") =>
        LET N == Max(1, CeilPages(responses[1].total)) IN
        /\ AllPagesValid
        /\ requests = [i \in 1..N |-> i]
        /\ xresult.returned
        /\ xresult.value = ConcatResults(responses)
        /\ AllPagesFull => Len(xresult.value) = responses[1].total

\* Witness of C1: total = 120 fetched as three pages of 50 + 50 + 20 records.
C1_Witness ==
    /\ xpc = "returned"
    /\ responses[1].total = 120
    /\ requests = <<1, 2, 3>>
    /\ AllPagesFull
    /\ Len(xresult.value) = 120
    /\ Len(responses[3].results) = 20
    /\ responses[2].has_total /\ responses[2].total # responses[1].total

\* C2: when ceil(total / PER_PAGE) of page 1 is at most 1, no page after the
\* first is ever requested and the value returned is page 1's `results`.
C2_SinglePageNoSecondRequest ==
    (FirstPageValid /\ CeilPages(responses[1].total) <= 1) =>
        /\ requests = <<1>>
        /\ xpc \in {"loop", "returned"}
        /\ (xpc = "returned") =>
              xresult.returned /\ xresult.value = responses[1].results

\* Witness of C2: a single full page of exactly PER_PAGE records was returned.
C2_Witness ==
    /\ xpc = "returned"
    /\ responses[1].total = PER_PAGE
    /\ Len(xresult.value) = PER_PAGE
    /\ requests = <<1>>

\* The request whose payload is malformed: `results` missing, or `total`
\* missing on page 1.
Malformed(i) ==
    /\ responses[i].ok
    /\ \/ ~responses[i].has_results
       \/ i = 1 /\ ~responses[i].has_total

\* C3: a payload without `results` (any page) or without `total` (page 1)
\* ends the fetch with a ValueError, which names the page when it is not the
\* first; nothing is returned, and no later page is requested.
C3_MalformedResponseAborts ==
    \A i \in 1..Len(responses) :
        Malformed(i) =>
            /\ xpc = "raised"
            /\ xerror.type = "ValueError"
            /\ (i >= 2 /\ ~responses[i].has_results) => xerror.page = requests[i]
            /\ xresult = NoResult
            /\ Len(requests) = i

\* Witness of C3: page 2 lacks `results` after page 1 delivered records.
C3_Witness ==
    /\ Len(responses) = 2
    /\ Malformed(2)
    /\ Len(records) > 0
    /\ xerror = [type |-> "ValueError", page |-> 2]

\* C4: a request that fails at the network layer ends the fetch with a
\* RequestException: the page is requested once, no later page is requested
\* and the records of the earlier pages are not returned.
C4_TransportFailureAborts ==
    \A i \in 1..Len(responses) :
        ~responses[i].ok =>
            /\ xpc = "raised"
            /\ xerror.type = "RequestException"
            /\ xresult = NoResult
            /\ Len(requests) = i
            /\ \A j \in 1..Len(requests) : requests[j] = j

\* Witness of C4: page 3 fails after pages 1 and 2 delivered 100 records.
C4_Witness ==
    /\ Len(responses) = 3
    /\ ~responses[3].ok
    /\ Len(records) = 2 * PER_PAGE
    /\ xpc = "raised"

------------------------------------------------------------------------------
(* Properties of transform_data *)

ExpectedFields == {"booking_id", "check_in_date", "check_out_date",
                   "owner_company", "owner_company_country"}

Transformed == tpc \in {"done", "again"}

\* The value record i of the input has under key f; Absent without the key.
RawField(i, f) == IF f \in DOMAIN raw[i] THEN raw[i][f] ELSE Absent

\* The calendar: the day each well-formed date text of the inputs denotes.
CalendarDay(cell) ==
    CASE cell = D_2024_01_01 -> 20240101
      [] cell = D_2024_01_05 -> 20240105
      [] cell = D_2024_02_01 -> 20240201
      [] cell = D_2024_02_05 -> 20240205
      [] OTHER -> 0

\* Record i of the input has two calendar dates, check-out not before check-in.
RawDatesGood(i) ==
    /\ CalendarDay(RawField(i, "check_in_date")) > 0
    /\ CalendarDay(RawField(i, "check_out_date")) > 0
    /\ CalendarDay(RawField(i, "check_out_date")) >= CalendarDay(RawField(i, "check_in_date"))

Occurrences(b) == {i \in 1..Len(raw) : RawField(i, "booking_id") = IntCell(b)}
LastOccurrence(b) == CHOOSE i \in Occurrences(b) : \A j \in Occurrences(b) : j <= i

RowsWithId(frame, b) ==
    {r \in 1..Len(frame.rows) : frame.rows[r].cells["booking_id"] = IntCell(b)}

\* C5: for every booking_id of the input that is not null, the output holds at
\* most one record with it, and that record is the last occurrence of the id
\* in the input: its position and its dates are those of the last occurrence.
C5_LastSeenWins ==
    Transformed =>
        \A b \in BookingIds :
            /\ Cardinality(RowsWithId(df, b)) <= 1
            /\ \A r \in RowsWithId(df, b) :
                  /\ Occurrences(b) # {}
                  /\ df.rows[r].idx + 1 = LastOccurrence(b)
                  /\ df.rows[r].cells["check_in_date"].n
                        = CalendarDay(RawField(LastOccurrence(b), "check_in_date"))
                  /\ df.rows[r].cells["check_out_date"].n
                        = CalendarDay(RawField(LastOccurrence(b), "check_out_date"))

\* Witness of C5: the id occurs twice with different dates and the output
\* keeps the second, 2024-02-01.
C5_Witness ==
    /\ Transformed
    /\ Len(raw) = 2
    /\ Occurrences(1) = {1, 2}
    /\ RawField(1, "check_in_date") = D_2024_01_01
    /\ RawField(2, "check_in_date") = D_2024_02_01
    /\ Len(df.rows) = 1
    /\ df.rows[1].cells["check_in_date"] = DateCell(20240201)

\* C6: every record of the output has a booking_id that is not null and is
\* unique in the table, two parsed dates and check_out_date >= check_in_date;
\* it comes from an input record whose dates are calendar dates in this order.
C6_CleanedRecordInvariant ==
    Transformed =>
        \A r \in 1..Len(df.rows) :
            LET row == df.rows[r] IN
            /\ row.cells["booking_id"].k = "int"
            /\ \A q \in 1..Len(df.rows) :
                  q # r => df.rows[q].cells["booking_id"] # row.cells["booking_id"]
            /\ row.cells["check_in_date"].k = "date"
            /\ row.cells["check_out_date"].k = "date"
            /\ row.cells["check_out_date"].n >= row.cells["check_in_date"].n
            /\ row.idx + 1 \in 1..Len(raw)
            /\ RawDatesGood(row.idx + 1)

\* Witness of C6: of a record with a null id and a record with reversed
\* dates nothing is left.
C6_Witness ==
    /\ Transformed
    /\ Len(raw) = 2
    /\ RawField(1, "booking_id") = NoneCell
    /\ RawDatesGood(1)
    /\ RawField(2, "booking_id") = IntCell(1)
    /\ RawField(2, "check_in_date") = D_2024_01_05
    /\ RawField(2, "check_out_date") = D_2024_01_01
    /\ df.rows = <<>>

\* C7: transform_data accepts the table it returned and returns it unchanged.
C7_TransformIdempotent ==
    /\ (tpc = "done") => ~TransformData(df).raised
    /\ (tpc = "again") => df_again = df

\* Witness of C7: a table of two records, texts already standardized, was
\* normalized a second time.
C7_Witness ==
    /\ tpc = "again"
    /\ Len(df.rows) = 2
    /\ df.rows[1].cells["owner_company"] = StrCell(<<"A", "c", "m", "e", " ", "C", "o", "r", "p">>)
    /\ df.rows[2].cells["owner_company"] = StrCell(<<"N", "a", "n">>)

\* C10: transform_data raises a KeyError exactly when one of the five expected
\* fields is a key of no input record; otherwise it returns, and its output
\* holds input records only, in their order.
C10_SchemaErrorOnlyWhenFieldAbsentEverywhere ==
    LET absentEverywhere ==
            \E f \in ExpectedFields : \A i \in 1..Len(raw) : f \notin DOMAIN raw[i]
    IN /\ (tpc = "failed") =>
             /\ absentEverywhere
             /\ terror.type = "KeyError"
             /\ terror.key \in ExpectedFields
             /\ \A i \in 1..Len(raw) : terror.key \notin DOMAIN raw[i]
       /\ Transformed =>
             /\ ~absentEverywhere
             /\ \A r \in 1..Len(df.rows) : df.rows[r].idx + 1 \in 1..Len(raw)
             /\ \A r \in 1..(Len(df.rows) - 1) : df.rows[r].idx < df.rows[r + 1].idx
       /\ (tpc = "start") =>
             (absentEverywhere <=> TransformData(DataFrame(raw)).raised)

\* Witness of C10: check_out_date is a key of neither record.
C10_Witness ==
    /\ tpc = "failed"
    /\ Len(raw) = 2
    /\ terror = [type |-> "KeyError", key |-> "check_out_date"]
    /\ RawField(1, "booking_id") = IntCell(1)

\* A run C10 also covers: records with problems of their own (a key missing
\* from one record only, a null id) are removed and nothing is raised.
C10_SoftProblemsReached ==
    /\ tpc = "done"
    /\ Len(raw) = 2
    /\ "check_out_date" \notin DOMAIN raw[1]
    /\ RawField(2, "booking_id") = NoneCell
    /\ df.rows = <<>>

------------------------------------------------------------------------------
(* Properties of load_to_postgres *)

\* C9: the load inserts or ignores by booking_id.  Table bookings never holds
\* two rows with one booking_id; every row it held before a call it holds,
\* unchanged, after the call; and once a call has committed the batch, every
\* later call on the same batch leaves the table as that call left it.
C9_LoadInsertOrIgnore ==
    /\ \A r, q \in bookings : r.booking_id = q.booking_id => r = q
    /\ snapshots[Len(snapshots)] = bookings
    /\ \A i \in 1..(Len(snapshots) - 1) : snapshots[i] \subseteq snapshots[i + 1]
    /\ \A i \in 1..Len(outcomes) : \A j \in (i + 1)..Len(outcomes) :
          outcomes[i] = "done" => snapshots[j + 1] = snapshots[i + 1]

\* Witness of C9: the batch was committed twice; it holds a row whose
\* booking_id was stored with other values, and a row that was new.
C9_Witness ==
    /\ outcomes = <<"done", "done">>
    /\ Len(batch) = 2
    /\ \E r \in snapshots[1] : r.booking_id = batch[1].booking_id /\ r # batch[1]
    /\ batch[2] \notin snapshots[1]
    /\ batch[2] \in bookings

------------------------------------------------------------------------------
(* Properties of main *)

\* C8: once a stage function has failed, main calls no later stage function:
\* a failed stage is the last one executed.
C8_FailureHaltsPipeline ==
    \A i \in 1..Len(executed) :
        executed[i] \in failed => i = Len(executed)

------------------------------------------------------------------------------
(* Properties of the text fields of transform_data *)

TextFields == {"owner_company", "owner_company_country"}

\* `out` is `in` without its leading and trailing blanks and with every run
\* of letters written as one uppercase letter followed by lowercase letters.
IsStandardized(in, out) ==
    LET solid == {i \in 1..Len(in) : in[i] # " "} IN
    IF solid = {} THEN out = <<>>
    ELSE LET first == CHOOSE i \in solid : \A j \in solid : i <= j
             last == CHOOSE i \in solid : \A j \in solid : j <= i
         IN /\ Len(out) = last - first + 1
            /\ \A j \in 1..Len(out) :
                  LET c == in[first + j - 1] IN
                  IF j > 1 /\ IsLetter(in[first + j - 2])
                  THEN out[j] = Lower(c)
                  ELSE out[j] = Upper(c)

Text_Nan == <<"N", "a", "n">>
Text_None == <<"N", "o", "n", "e">>

\* No input record carries a text under f, and some record lacks the key.
NoTextAndSomeKeyAbsent(f) ==
    /\ \A i \in 1..Len(raw) : RawField(i, f).k # "str"
    /\ \E i \in 1..Len(raw) : RawField(i, f) = Absent

\* Every input record that is the last one of its booking_id and has good
\* dates is in the output, whatever its texts are.
TextsDropNothing ==
    \A i \in 1..Len(raw) :
        (/\ RawField(i, "booking_id").k = "int"
         /\ \A j \in (i + 1)..Len(raw) :
               RawField(j, "booking_id") # RawField(i, "booking_id")
         /\ RawDatesGood(i))
        => \E r \in 1..Len(df.rows) : df.rows[r].idx + 1 = i

\* C11 as stated: in every output record the two text fields are the input
\* text stripped and title-cased, and a missing value (a key the record
\* lacks, or a null) is the text "Nan"; the texts drop no record.
C11_MissingTextIsNan ==
    Transformed =>
        /\ \A r \in 1..Len(df.rows) : \A f \in TextFields :
              LET v == RawField(df.rows[r].idx + 1, f)
                  cell == df.rows[r].cells[f]
              IN /\ cell.k = "str"
                 /\ v.k = "str" => IsStandardized(v.s, cell.s)
                 /\ v.k # "str" => cell.s = Text_Nan
        /\ TextsDropNothing

\* C11, amended: as above, but only a value whose key the record lacks is
\* always "Nan"; a null is "None", unless no input record carries a text in
\* the field and some record lacks the key, when it is "Nan" too.
C11_TextStandardized ==
    Transformed =>
        /\ \A r \in 1..Len(df.rows) : \A f \in TextFields :
              LET v == RawField(df.rows[r].idx + 1, f)
                  cell == df.rows[r].cells[f]
              IN /\ cell.k = "str"
                 /\ v.k = "str" => IsStandardized(v.s, cell.s)
                 /\ v = Absent => cell.s = Text_Nan
                 /\ v = NoneCell =>
                       cell.s = IF NoTextAndSomeKeyAbsent(f) THEN Text_Nan ELSE Text_None
        /\ TextsDropNothing

\* Witness of C11: "  acme corp  " became "Acme Corp" in one record; the
\* other has a null company, kept as "None", and a country with an
\* apostrophe and a digit.
C11_Witness ==
    /\ Transformed
    /\ Len(df.rows) = 2
    /\ RawField(1, "owner_company") = StrCell(Text_acme_corp)
    /\ df.rows[1].cells["owner_company"].s = <<"A", "c", "m", "e", " ", "C", "o", "r", "p">>
    /\ df.rows[1].cells["owner_company_country"].s = <<"U", "s", "a">>
    /\ RawField(2, "owner_company") = NoneCell
    /\ df.rows[2].cells["owner_company"].s = Text_None
    /\ df.rows[2].cells["owner_company_country"].s
          = <<"O", "'", "N", "e", "i", "l", " ", " ", "3", "M">>

\* A run C11 also covers: a record without the key owner_company is kept,
\* its company being "Nan".
C11_AbsentKeyReached ==
    /\ Transformed
    /\ Len(df.rows) = 2
    /\ RawField(2, "owner_company") = Absent
    /\ df.rows[2].cells["owner_company"].s = Text_Nan

-------------------------------------------------------------------------------
(* Properties of the order of the steps of transform_data *)

\* C13: when the last occurrence of a booking_id in the input does not have two
\* calendar dates with check_out_date >= check_in_date, the output holds no
\* record with that id, whatever the earlier occurrences of the id are.
C13_DedupBeforeDateFilter ==
    Transformed =>
        \A b \in BookingIds :
            (Occurrences(b) # {} /\ ~RawDatesGood(LastOccurrence(b)))
                => RowsWithId(df, b) = {}

\* Witness of C13: the id occurs twice, the first occurrence has good dates,
\* the last one has not, no error was raised and the output is empty.
C13_Witness ==
    /\ Transformed
    /\ Len(raw) = 2
    /\ Occurrences(1) = {1, 2}
    /\ RawDatesGood(1)
    /\ ~RawDatesGood(2)
    /\ terror = NoKeyError
    /\ df.rows = <<>>

-------------------------------------------------------------------------------
(* Properties of the errors main catches *)

\* C12: the error main catches from a failed stage function is the error
\* that was raised in it.
C12_ErrorsPropagateUnmodified ==
    \A i \in 1..Len(origins) : origins[i].caught = origins[i].cause

====
